---- MODULE Spec2Model ----
(***************************************************************************)
(* Model of asgi_server_timing.middleware: the Server-Timing metric value, *)
(* the header field model (parse / serialize), and ServerTimingMiddleware  *)
(* with its per-request tag, the process-wide yappi statistics and the     *)
(* wrapped send.                                                           *)
(*                                                                         *)
(* Text (str and bytes) is a TLA+ string.  A float is represented by the   *)
(* integer number of its thousandths (5.0 is 5000, 0.005 is 5).  An        *)
(* Optional value is a sequence of length 0 (None) or 1.                   *)
(***************************************************************************)
EXTENDS Integers, Sequences, FiniteSets, TLC

\* ------------------------------------------------------------------------
\* Bounds of the model
\* ------------------------------------------------------------------------
\* number of requests the server handles (each in a task of its own)
NumRequests == 2
\* the configured memory threshold, in units of one yappi statistics entry
MaxProfilerMem == 3

Requests == 1..NumRequests
\* the values id(scope) can take: addresses of scope objects
ScopeIds == 1..NumRequests
\* the functions downstream code calls
Funcs == {"f1", "f2", "g"}

None == <<>>
Some(v) == <<v>>

\* ------------------------------------------------------------------------
\* Python text primitives
\* ------------------------------------------------------------------------
Char(s, i) == SubSeq(s, i, i)

HasChar(s, c) == \E i \in 1..Len(s) : Char(s, i) = c

\* index of the first occurrence of the character c in s
Find(s, c) ==
    CHOOSE i \in 1..Len(s) :
        /\ Char(s, i) = c
        /\ \A j \in 1..(i - 1) : Char(s, j) # c

RECURSIVE Split(_, _)
\* str.split(sep) for a one-character separator
Split(s, sep) ==
    IF ~HasChar(s, sep)
    THEN <<s>>
    ELSE LET i == Find(s, sep)
         IN  <<SubSeq(s, 1, i - 1)>> \o Split(SubSeq(s, i + 1, Len(s)), sep)

RECURSIVE Join(_, _)
\* sep.join(parts)
Join(parts, sep) ==
    IF parts = <<>> THEN ""
    ELSE IF Len(parts) = 1 THEN parts[1]
    ELSE parts[1] \o sep \o Join(Tail(parts), sep)

Digit(d) == SubSeq("0123456789", d + 1, d + 1)

RECURSIVE NatToStr(_)
NatToStr(n) == IF n < 10 THEN Digit(n) ELSE NatToStr(n \div 10) \o Digit(n % 10)

\* f'{x:.3f}' of the float with thousandths t
Format3f(t) ==
    NatToStr(t \div 1000) \o "." \o Digit((t \div 100) % 10)
        \o Digit((t \div 10) % 10) \o Digit(t % 10)

\* f'{x}' (str of a float) of the float with thousandths t: the shortest
\* decimal, with at least one fractional digit
FloatStr(t) ==
    LET frac == t % 1000
        digits == IF frac = 0 THEN "0"
                  ELSE IF frac % 100 = 0 THEN Digit(frac \div 100)
                  ELSE IF frac % 10 = 0
                       THEN Digit(frac \div 100) \o Digit((frac \div 10) % 10)
                  ELSE Digit(frac \div 100) \o Digit((frac \div 10) % 10)
                           \o Digit(frac % 10)
    IN  NatToStr(t \div 1000) \o "." \o digits

\* the 7-bit characters the model's texts are written with
AsciiText == "abcdefghijklmnopqrstuvwxyz0123456789 \"'(),-./:;<=>?@[\\]_{}"

AsciiChars == { Char(AsciiText, i) : i \in 1..Len(AsciiText) }

\* 7-bit characters that are not printable
ControlChars == {"\t", "\n"}

\* str.isascii()
IsAscii(s) == \A i \in 1..Len(s) : Char(s, i) \in AsciiChars \cup ControlChars

\* str.isprintable(), of the characters the model's texts are written with
IsPrintable(s) == \A i \in 1..Len(s) : Char(s, i) \notin ControlChars

\* str.encode('ascii') raises UnicodeEncodeError on a non-ASCII character;
\* otherwise the bytes are the characters
EncodeAsciiRaises(s) == ~IsAscii(s)

RECURSIVE EscapeBytes(_)
\* the body of repr(bytes) between single quotes
EscapeBytes(b) ==
    IF b = "" THEN ""
    ELSE LET c == Char(b, 1)
             e == IF c = "'" THEN "\\'" ELSE IF c = "\\" THEN "\\\\" ELSE c
         IN  e \o EscapeBytes(SubSeq(b, 2, Len(b)))

\* str(b) of a bytes object b is its repr: b'...' (b"..." when the bytes
\* hold a single quote and no double quote)
StrOfBytes(b) ==
    IF HasChar(b, "'") /\ ~HasChar(b, "\"")
    THEN "b\"" \o b \o "\""
    ELSE "b'" \o EscapeBytes(b) \o "'"

\* ------------------------------------------------------------------------
\* Ordered dictionaries: sequences of <<key, value>> with distinct keys
\* ------------------------------------------------------------------------
DictHas(d, k) == \E i \in 1..Len(d) : d[i][1] = k

DictIndex(d, k) == CHOOSE i \in 1..Len(d) : d[i][1] = k

\* d[k] = v : an existing key keeps its position
DictSet(d, k, v) ==
    IF DictHas(d, k)
    THEN [d EXCEPT ![DictIndex(d, k)] = <<k, v>>]
    ELSE Append(d, <<k, v>>)

RECURSIVE DictOfPairs(_)
\* dict(pairs) : the last value of a repeated key, at the key's first place
DictOfPairs(pairs) ==
    IF pairs = <<>> THEN <<>>
    ELSE LET n == Len(pairs)
         IN  DictSet(DictOfPairs(SubSeq(pairs, 1, n - 1)), pairs[n][1], pairs[n][2])

\* ------------------------------------------------------------------------
\* ServerTimingMetric
\* ------------------------------------------------------------------------
\* a parameter value of a header field: text read from a header, or the
\* float a metric carries
StrVal(s) == [kind |-> "str", s |-> s, n |-> 0]
FloatVal(t) == [kind |-> "float", s |-> "", n |-> t]

\* other Python values an argument can be
NoneVal == [kind |-> "NoneType", s |-> "", n |-> 0]
IntVal(i) == [kind |-> "int", s |-> "", n |-> i]

\* bool(v)
Truthy(v) == IF v.kind = "str" THEN v.s # "" ELSE v.n # 0

\* isinstance(v, str)
IsStr(v) == v.kind = "str"

\* f'{v}'
FormatValue(v) == IF v.kind = "float" THEN FloatStr(v.n) ELSE v.s

ServerTimingMetric(name, description, duration) ==
    [name |-> name, description |-> description, duration |-> duration]

\* the characters of _re_pattern_invalid_characters
InvalidCharacters == " \"(),/:;<=>?@[\\]{}"

\* search(_re_pattern_invalid_characters, name) finds a match
SearchInvalidCharacters(name) ==
    \E i \in 1..Len(name) : HasChar(InvalidCharacters, Char(name, i))

\* _ServerTimingMetricName.__post_init__: the exception it raises, "" when
\* it returns
_ServerTimingMetricName__post_init__(name, description) ==
    IF description # NoneVal /\ ~IsStr(description) THEN "TypeError"
    ELSE IF ~IsStr(name) THEN "TypeError"
    ELSE IF ~IsAscii(name.s) THEN "ValueError"
    ELSE IF ~IsPrintable(name.s) THEN "ValueError"
    ELSE IF SearchInvalidCharacters(name.s) THEN "ValueError"
    ELSE ""

\* ServerTimingMetric.__post_init__: it overrides the one of the base class
\* and does not call it
ServerTimingMetric__post_init__(duration) ==
    IF duration # NoneVal /\ duration.kind # "float" THEN "TypeError" ELSE ""

\* the __post_init__ the generated __init__ of a class calls
PostInit(class, name, description, duration) ==
    IF class = "ServerTimingMetric"
    THEN ServerTimingMetric__post_init__(duration)
    ELSE _ServerTimingMetricName__post_init__(name, description)

to_optional_value_dict(metric) ==
    (IF metric.duration # None
        THEN <<(<<"dur", FloatVal(metric.duration[1])>>)>> ELSE <<>>)
    \o
    (IF metric.description # None
        THEN <<(<<"desc", StrVal(metric.description[1])>>)>> ELSE <<>>)

to_header_string(metric) ==
    metric.name
    \o (IF metric.duration # None
           THEN ";dur=" \o Format3f(metric.duration[1]) ELSE "")
    \o (IF metric.description # None
           THEN ";desc=\"" \o metric.description[1] \o "\"" ELSE "")

\* ------------------------------------------------------------------------
\* ServerTimingHeaderField: name -> (parameter -> value), both ordered
\* ------------------------------------------------------------------------
RECURSIVE format_metric(_, _)
format_metric(key, value) ==
    IF value = <<>> THEN key
    ELSE LET n == Len(value)
             parameter == value[n][1]
             v == value[n][2]
             head == format_metric(key, SubSeq(value, 1, n - 1))
         IN  IF parameter = "dur" THEN head \o ";dur=" \o FormatValue(v)
             ELSE IF parameter = "desc" THEN head \o ";desc=" \o FormatValue(v)
             ELSE head

to_header_field_string(sthf) ==
    Join([i \in 1..Len(sthf) |-> format_metric(sthf[i][1], sthf[i][2])], ",")

\* to_header_field_bytes raises UnicodeEncodeError
to_header_field_bytes_raises(sthf) ==
    EncodeAsciiRaises(to_header_field_string(sthf))

\* the outcome of the parser: the header field, or raised
Parsed(sthf) == [raised |-> FALSE, sthf |-> sthf]
ParseError == [raised |-> TRUE, sthf |-> <<>>]

RECURSIVE SetParameters(_, _, _)
\* the inner loop: `key, value = parameter.split('=')` raises ValueError
\* unless the parameter holds exactly one '='; sthf[name][key] = value makes
\* the entry of name on its first parameter (a defaultdict)
SetParameters(acc, name, parameters) ==
    IF acc.raised \/ parameters = <<>> THEN acc
    ELSE LET kv == Split(parameters[1], "=")
             old == IF DictHas(acc.sthf, name)
                    THEN acc.sthf[DictIndex(acc.sthf, name)][2] ELSE <<>>
         IN  IF Len(kv) # 2 THEN ParseError
             ELSE SetParameters(
                      Parsed(DictSet(acc.sthf, name, DictSet(old, kv[1], StrVal(kv[2])))),
                      name, Tail(parameters))

RECURSIVE ParseMetrics(_, _)
\* the outer loop over header_field.split(',')
ParseMetrics(acc, metrics) ==
    IF acc.raised \/ metrics = <<>> THEN acc
    ELSE LET parameters == Split(metrics[1], ";")
         IN  ParseMetrics(SetParameters(acc, parameters[1], Tail(parameters)),
                          Tail(metrics))

server_timing_metrics_to_dict(header_field) ==
    ParseMetrics(Parsed(<<>>), Split(header_field, ","))

\* ------------------------------------------------------------------------
\* State
\* ------------------------------------------------------------------------
VARIABLES
    metric,             \* the outcome of the last construction of a metric object
    header_field,       \* a ServerTimingHeaderField under test and what was applied to it
    constructed,        \* the outcome of ServerTimingMiddleware(...): "" before the
                        \* call, "ok", or the exception raised
    profiler,           \* yappi: "off" until yappi.start(), then "started"
    overwrite_behavior, \* ServerTimingMiddleware.overwrite_behavior
    calls_to_track,     \* ServerTimingMiddleware.calls_to_track, in dict order
    pc,                 \* where the task of each request stands in __call__
    ctx_tag,            \* the local ctx_tag of each __call__
    yappi_ctx_tag,      \* the ContextVar _yappi_ctx_tag: its value in each task's context
    stats,              \* yappi's statistics: (tag, function) -> ncall, ttot
    origin,             \* history: the time each request contributed to each entry
    overlap,            \* history: the requests in flight together with each request
    calls,              \* the functions the downstream code of each request has called
    passed,             \* the last message the application passed to wrapped_send
    sent,               \* the last message wrapped_send forwarded to send
    app_messages,       \* all messages the application of each request passed to
                        \* wrapped_send, in order
    send_messages       \* all messages the real send of each request was called
                        \* with, in order

vars == <<metric, header_field, constructed, profiler, overwrite_behavior, calls_to_track, pc,
          ctx_tag, yappi_ctx_tag, stats, origin, overlap, calls, passed, sent,
          app_messages, send_messages>>

\* the record of the messages of all requests
log == <<app_messages, send_messages>>

\* the objects outside the middleware
objects == <<metric, header_field>>

\* the constructed middleware and the profiler it started
config == <<constructed, profiler, overwrite_behavior, calls_to_track>>

\* no metric object has been constructed yet
NoMetric == [class |-> "", raised |-> "", name |-> NoneVal, description |-> NoneVal,
             duration |-> NoneVal]

\* no header field is under test
NoHeaderField == [op |-> "", sthf |-> <<>>, raised |-> FALSE, incoming |-> <<>>,
                  text |-> "", before |-> <<>>]

NoMessage == [type |-> "", status |-> 0, headers |-> <<>>]

ResponseStart(headers) ==
    [type |-> "http.response.start", status |-> 200, headers |-> headers]

ResponseBody == [type |-> "http.response.body", status |-> 0, headers |-> <<>>]

\* the time (thousandths of a second) one tracked call of request r takes
Elapsed(r) == IF r = 1 THEN 5 ELSE 100 * (2 * r - 3)

\* the task of request r runs: its scope object is alive
InFlight(r) == pc[r] \in {"running", "started", "body", "raised"}

\* ------------------------------------------------------------------------
\* Configurations and inputs
\* ------------------------------------------------------------------------
OverwriteBehaviors == {NoneVal, StrVal("replace"), StrVal("retain")}

TrackAscii ==
    << [name |-> "a", description |-> None, duration |-> None,
        callables |-> {"f1", "f2"}],
       [name |-> "b", description |-> Some("x"), duration |-> None,
        callables |-> {"g"}] >>

TrackNonAscii ==
    << [name |-> "a", description |-> Some("é"), duration |-> None,
        callables |-> {"f1", "f2"}],
       [name |-> "b", description |-> Some("x"), duration |-> None,
        callables |-> {"g"}] >>

\* two items with the same key
TrackSameKey ==
    << [name |-> "a", description |-> Some("x"), duration |-> None,
        callables |-> {"f1"}],
       [name |-> "a", description |-> Some("x"), duration |-> None,
        callables |-> {"g"}] >>

\* two keys with the same name and different descriptions
TrackSameName ==
    << [name |-> "a", description |-> Some("x"), duration |-> None,
        callables |-> {"f1"}],
       [name |-> "a", description |-> Some("y"), duration |-> None,
        callables |-> {"g"}] >>

\* a bound method and a cython function as targets
TrackMethod ==
    << [name |-> "a", description |-> None, duration |-> None,
        callables |-> {"f1", "m", "cy"}] >>

\* a key without targets
TrackNothing ==
    << [name |-> "a", description |-> None, duration |-> None, callables |-> {}] >>

\* one target that is no function: a builtin
TrackBuiltin ==
    << [name |-> "a", description |-> None, duration |-> None,
        callables |-> {"f1"}],
       [name |-> "b", description |-> None, duration |-> None,
        callables |-> {"g", "len"}] >>

\* two targets that are no functions: a class and a builtin
TrackClass ==
    << [name |-> "a", description |-> None, duration |-> None,
        callables |-> {"C", "len"}] >>

\* the items the dict passed as calls_to_track is written with
ItemLists ==
    {<<>>, TrackAscii, TrackNonAscii, TrackSameKey, TrackSameName, TrackMethod,
     TrackNothing, TrackBuiltin, TrackClass}

\* the values passed as overwrite_behavior (False is the int 0)
PolicyArguments ==
    {NoneVal, IntVal(0), StrVal(""), StrVal("replace"), StrVal("retain"),
     StrVal("bogus"), StrVal("Replace"), IntVal(1)}

ContentType == <<"content-type", "text/plain">>

\* response headers without a server-timing header
HeadersPlain == <<ContentType>>

\* an existing metric a with a description and no duration
HeadersDesc == <<ContentType, <<"server-timing", "a;desc=\"x\"">> >>

\* a header name that occurs twice, around an existing server-timing header
\* whose second metric is b
HeadersCookies ==
    << <<"set-cookie", "k=1">>, <<"server-timing", "z;dur=1,b;dur=2,y;dur=3">>,
       <<"set-cookie", "k=2">> >>

\* existing metrics given as bare names
HeadersBare == <<ContentType, <<"server-timing", "z;dur=1,b,y">> >>

\* a parameter without '='
HeadersNoEquals == <<ContentType, <<"server-timing", "a;x">> >>

\* a parameter with two '='
HeadersTwoEquals == <<ContentType, <<"server-timing", "a;desc=\"p=q\";dur=1">> >>

\* a server-timing header with an empty value
HeadersEmpty == <<ContentType, <<"server-timing", "">> >>

HeaderLists ==
    {HeadersPlain, HeadersDesc, HeadersCookies, HeadersBare, HeadersNoEquals,
     HeadersTwoEquals, HeadersEmpty}

\* the metric classes
MetricClasses == {"_ServerTimingMetricName", "ServerTimingMetric"}

\* names given to a metric: every single character of the model's texts, the
\* empty name, longer names, and a name that is no str
MetricNames ==
    { StrVal(Char(AsciiText, i)) : i \in 1..Len(AsciiText) }
        \cup { StrVal(c) : c \in ControlChars }
        \cup { StrVal(""), StrVal("é"), StrVal("db"), StrVal("cache-hit"),
               StrVal("a b"), StrVal("a;dur=1"), IntVal(5) }

MetricDescriptions == {NoneVal, StrVal("x"), IntVal(1)}

MetricDurations == {NoneVal, FloatVal(5000), IntVal(5)}

\* header fields: maps from names to parameters, as the parser and the merge
\* make them
HeaderFieldMaps ==
    { <<>>,
      << <<"a", << <<"dur", StrVal("1")>> >> >> >>,
      << <<"a", << <<"dur", StrVal("1.5")>> >> >>,
         <<"b", << <<"dur", StrVal("2")>> >> >> >>,
      << <<"a", << <<"dur", FloatVal(5000)>> >> >> >>,
      << <<"a", <<>> >> >>,
      << <<"z", << <<"dur", StrVal("1")>> >> >>, <<"b", <<>> >> >>,
      << <<"a", << <<"foo", StrVal("1")>> >> >> >>,
      << <<"a", << <<"dur", StrVal("1")>>, <<"foo", StrVal("1")>> >> >> >>,
      << <<"a", << <<"desc", StrVal("x")>> >> >> >>,
      << <<"a", << <<"dur", StrVal("1")>>, <<"desc", StrVal("p=q")>> >> >> >> }

\* the metrics a merge is given
IncomingMetrics ==
    { <<>>,
      <<ServerTimingMetric("a", None, Some(5000))>>,
      <<ServerTimingMetric("b", Some("x"), Some(100000))>>,
      <<ServerTimingMetric("a", None, Some(5000)),
        ServerTimingMetric("b", Some("x"), Some(100000))>>,
      <<ServerTimingMetric("a", Some("x"), Some(5000)),
        ServerTimingMetric("a", Some("y"), Some(7000))>> }

\* ------------------------------------------------------------------------
\* yappi
\* ------------------------------------------------------------------------
NoStat == [ncall |-> 0, ttot |-> 0]

StatKeys == ScopeIds \X Funcs

\* a query that forgets the tag filter
get_func_stats_any_tag(tag, callables) ==
    {f \in callables : \E t \in ScopeIds : stats[<<t, f>>].ncall > 0}

\* yappi.get_func_stats(filter={'tag': tag}, filter_callback=func_matches(stat,
\* callables)): the functions that have an entry under tag and are in callables
get_func_stats(tag, callables) ==
    {f \in callables : <<tag, f>> \in StatKeys /\ stats[<<tag, f>>].ncall > 0}

RECURSIVE SumTtot(_, _)
\* sum(stat.ttot for stat in stats)
SumTtot(tag, fs) ==
    IF fs = {} THEN 0
    ELSE LET f == CHOOSE x \in fs : TRUE
         IN  stats[<<tag, f>>].ttot + SumTtot(tag, fs \ {f})

\* yappi.get_mem_usage(), in units of one statistics entry
get_mem_usage == Cardinality({k \in StatKeys : stats[k].ncall > 0})

\* ------------------------------------------------------------------------
\* ServerTimingMiddleware
\* ------------------------------------------------------------------------
\* type(target).__name__ of the objects given as targets
TypeOf(target) ==
    IF target \in Funcs THEN "function"
    ELSE IF target = "m" THEN "method"
    ELSE IF target = "cy" THEN "cython_function_or_method"
    ELSE IF target = "C" THEN "type"
    ELSE "builtin_function_or_method"

is_function(function) ==
    \/ TypeOf(function) = "function"
    \/ TypeOf(function) = "method"
    \/ TypeOf(function) = "cython_function_or_method"

\* the __eq__ a dataclass generates: the tuples of all fields are equal
MetricEq(a, b) ==
    <<a.name, a.description, a.duration>> = <<b.name, b.description, b.duration>>

RECURSIVE DictOfItems(_)
\* the dict {key: callables, ...} written with the items: an item whose key
\* equals an earlier key gives that key its value
DictOfItems(items) ==
    IF items = <<>> THEN <<>>
    ELSE LET n == Len(items)
             d == DictOfItems(SubSeq(items, 1, n - 1))
             hit == {i \in 1..Len(d) : MetricEq(d[i], items[n])}
         IN  IF hit # {}
             THEN [d EXCEPT ![CHOOSE i \in hit : TRUE].callables = items[n].callables]
             ELSE Append(d, items[n])

\* the exception __init__ raises, "" when it returns
InitRaises(tracked, policy) ==
    IF \E i \in 1..Len(tracked) : \E t \in tracked[i].callables : ~is_function(t)
    THEN "TypeError"
    ELSE IF /\ Truthy(policy)
            /\ IsStr(policy)
            /\ policy # StrVal("replace")
            /\ policy # StrVal("retain")
    THEN "AttributeError"
    ELSE ""

\* one process-global slot instead of a ContextVar: every task sees the value
ContextVarSetGlobal(r, tag) == [o \in Requests |-> tag]

\* _yappi_ctx_tag.set(tag) in the task of request r: a ContextVar changes the
\* context of the running task only
ContextVarSet(r, tag) == [yappi_ctx_tag EXCEPT ![r] = tag]

\* _get_context_tag() called by yappi while the task of request r runs
_get_context_tag(r) == yappi_ctx_tag[r]

\* the values id(scope) can return for a new scope: an address no live scope has
IdOfScope == {t \in ScopeIds : \A o \in Requests : InFlight(o) => ctx_tag[o] # t}

RECURSIVE PerformancesLateBound(_, _)
\* the statistics of every key filtered with the callables the comprehension
\* variable holds at its end: those of the last key
PerformancesLateBound(tag, keys) ==
    IF keys = <<>> THEN <<>>
    ELSE LET key == keys[1]
             found == get_func_stats(tag, keys[Len(keys)].callables)
             rest == PerformancesLateBound(tag, Tail(keys))
         IN  IF found # {}
             THEN <<ServerTimingMetric(key.name, key.description,
                                       Some(SumTtot(tag, found) * 1000))>> \o rest
             ELSE rest

RECURSIVE PerformancesOf(_, _)
\* the generator `performances`: one ServerTimingMetric per key of
\* calls_to_track whose statistics are not empty, the duration in milliseconds
PerformancesOf(tag, keys) ==
    IF keys = <<>> THEN <<>>
    ELSE LET key == keys[1]
             found == get_func_stats(tag, key.callables)
             rest == PerformancesOf(tag, Tail(keys))
         IN  IF found # {}
             THEN <<ServerTimingMetric(key.name, key.description,
                                       Some(SumTtot(tag, found) * 1000))>> \o rest
             ELSE rest

RECURSIVE PerformancesUnfiltered(_, _)
\* the generator without its `if not stats.empty()`
PerformancesUnfiltered(tag, keys) ==
    IF keys = <<>> THEN <<>>
    ELSE <<ServerTimingMetric(keys[1].name, keys[1].description,
               Some(SumTtot(tag, get_func_stats(tag, keys[1].callables)) * 1000))>>
         \o PerformancesUnfiltered(tag, Tail(keys))

performances_unfiltered(tag) == PerformancesUnfiltered(tag, calls_to_track)

performances(tag) == PerformancesOf(tag, calls_to_track)

RECURSIVE ReplaceAdding(_, _)
\* a merge that adds the new duration to the existing entry's
ReplaceAdding(sthf, perfs) ==
    IF perfs = <<>> THEN sthf
    ELSE LET name == perfs[1].name
             old == IF DictHas(sthf, name) THEN sthf[DictIndex(sthf, name)][2]
                    ELSE <<>>
             dur == IF DictHas(old, "dur") /\ old[DictIndex(old, "dur")][2].kind = "float"
                    THEN old[DictIndex(old, "dur")][2].n ELSE 0
         IN  ReplaceAdding(
                 DictSet(sthf, name,
                         to_optional_value_dict(
                             ServerTimingMetric(name, perfs[1].description,
                                                Some(perfs[1].duration[1] + dur)))),
                 Tail(perfs))

RECURSIVE Replace(_, _)
\* for performance in performances: sthf[performance.name] = ...
Replace(sthf, perfs) ==
    IF perfs = <<>> THEN sthf
    ELSE Replace(DictSet(sthf, perfs[1].name, to_optional_value_dict(perfs[1])),
                 Tail(perfs))

\* `not sthf.get(name)`: no entry of that name, or an entry without parameters
NotGet(sthf, name) ==
    ~DictHas(sthf, name) \/ sthf[DictIndex(sthf, name)][2] = <<>>

RECURSIVE Retain(_, _)
\* for performance in performances: if not sthf.get(performance.name): ...
Retain(sthf, perfs) ==
    IF perfs = <<>> THEN sthf
    ELSE Retain(IF NotGet(sthf, perfs[1].name)
                THEN DictSet(sthf, perfs[1].name, to_optional_value_dict(perfs[1]))
                ELSE sthf,
                Tail(perfs))

\* the header field after the branch on overwrite_behavior
Merge(sthf, perfs) ==
    IF ~Truthy(overwrite_behavior) THEN sthf
    ELSE IF overwrite_behavior = StrVal("replace") THEN Replace(sthf, perfs)
    ELSE IF overwrite_behavior = StrVal("retain") THEN Retain(sthf, perfs)
    ELSE sthf

\* `if performances:` : a generator object is true, whatever it yields
PerformancesTruthy(perfs) == TRUE

\* headers.get(b'server-timing') of dict(response['headers'])
Field(headers) ==
    LET d == DictOfPairs(headers)
    IN  IF DictHas(d, "server-timing")
        THEN Some(d[DictIndex(d, "server-timing")][2]) ELSE None

\* `if field:` : the header exists and its value is not empty
FieldTruthy(field) == field # None /\ field[1] # ""

\* the value of the appended header: the joined to_header_string of all
\* performances
JoinedMetrics(perfs) ==
    Join([i \in 1..Len(perfs) |-> to_header_string(perfs[i])], ",")

Raised == [raised |-> TRUE, headers |-> <<>>]
Returned(headers) == [raised |-> FALSE, headers |-> headers]

\* the branch `if performances:` of wrapped_send: response['headers'] after
\* it, or raised (ValueError from the parser, UnicodeEncodeError from
\* encode('ascii'))
HeaderBranch(headers, perfs) ==
    IF ~PerformancesTruthy(perfs) THEN Returned(headers)
    ELSE LET field == Field(headers)
         IN  IF FieldTruthy(field)
             THEN LET parsed == server_timing_metrics_to_dict(StrOfBytes(field[1]))
                      sthf == Merge(parsed.sthf, perfs)
                  IN  IF parsed.raised \/ to_header_field_bytes_raises(sthf)
                      THEN Raised
                      ELSE Returned(DictSet(DictOfPairs(headers), "server-timing",
                                            to_header_field_string(sthf)))
             ELSE LET server_timing == JoinedMetrics(perfs)
                  IN  IF EncodeAsciiRaises(server_timing) THEN Raised
                      ELSE Returned(Append(headers, <<"server-timing", server_timing>>))

\* a check that clears only above the threshold
MemoryCheckAbove == get_mem_usage > MaxProfilerMem

\* `if yappi.get_mem_usage() >= self.max_profiler_mem`
MemoryCheck == get_mem_usage >= MaxProfilerMem

\* ------------------------------------------------------------------------
\* Actions
\* ------------------------------------------------------------------------
\* class(name, description, duration): the dataclass __init__ stores the
\* fields and calls __post_init__; the base class has no duration
NewMetric(class, name, description, duration) ==
    /\ class = "_ServerTimingMetricName" => duration = NoneVal
    /\ metric' = [class |-> class,
                  raised |-> PostInit(class, name, description, duration),
                  name |-> name, description |-> description,
                  duration |-> duration]
    /\ UNCHANGED <<header_field, config, pc, ctx_tag, yappi_ctx_tag, stats, origin,
                   overlap, calls, passed, sent, log>>

\* ServerTimingMiddleware(app, tracked, overwrite_behavior=policy): the targets
\* are validated, then calls_to_track is stored, then the policy is validated
\* and stored, then yappi is configured and started
MiddlewareInit(tracked, policy) ==
    /\ constructed = ""
    /\ constructed' = IF InitRaises(tracked, policy) = "" THEN "ok"
                       ELSE InitRaises(tracked, policy)
    /\ calls_to_track' = IF InitRaises(tracked, policy) = "TypeError"
                          THEN calls_to_track ELSE tracked
    /\ overwrite_behavior' = IF InitRaises(tracked, policy) = ""
                              THEN policy ELSE overwrite_behavior
    /\ profiler' = IF InitRaises(tracked, policy) = "" THEN "started" ELSE profiler
    /\ UNCHANGED <<objects, pc, ctx_tag, yappi_ctx_tag, stats, origin, overlap,
                   calls, passed, sent, log>>

\* a ServerTimingHeaderField is made and filled
NewHeaderField(sthf) ==
    /\ header_field.op = ""
    /\ header_field' = [NoHeaderField EXCEPT !.op = "new", !.sthf = sthf]
    /\ UNCHANGED <<metric, config, pc, ctx_tag, yappi_ctx_tag, stats, origin,
                   overlap, calls, passed, sent, log>>

\* sthf.to_header_field_string()
Serialize ==
    /\ header_field.op \in {"new", "replace"}
    /\ header_field' = [header_field EXCEPT
                           !.op = "serialized",
                           !.text = to_header_field_string(header_field.sthf),
                           !.before = header_field.sthf]
    /\ UNCHANGED <<metric, config, pc, ctx_tag, yappi_ctx_tag, stats, origin,
                   overlap, calls, passed, sent, log>>

\* server_timing_metrics_to_dict(text) of the text serialized before
Parse ==
    /\ header_field.op = "serialized"
    /\ LET parsed == server_timing_metrics_to_dict(header_field.text)
       IN  header_field' = [header_field EXCEPT
                               !.op = "parsed",
                               !.sthf = parsed.sthf,
                               !.raised = parsed.raised]
    /\ UNCHANGED <<metric, config, pc, ctx_tag, yappi_ctx_tag, stats, origin,
                   overlap, calls, passed, sent, log>>

\* the loop of the 'replace' branch, applied to the header field with the
\* metrics perfs
ReplaceMerge(perfs) ==
    /\ header_field.op \in {"new", "replace"}
    /\ header_field' = [header_field EXCEPT
                           !.op = "replace",
                           !.sthf = Replace(header_field.sthf, perfs),
                           !.incoming = perfs,
                           !.text = to_header_field_string(Replace(header_field.sthf, perfs)),
                           !.before = header_field.sthf]
    /\ UNCHANGED <<metric, config, pc, ctx_tag, yappi_ctx_tag, stats, origin,
                   overlap, calls, passed, sent, log>>

\* __call__ up to the await of the application: the tag is id(scope), stored
\* in the local ctx_tag and in the ContextVar
Call(r) ==
    /\ profiler = "started"
    /\ pc[r] = "idle"
    /\ \E tag \in IdOfScope :
          /\ ctx_tag' = [ctx_tag EXCEPT ![r] = tag]
          /\ yappi_ctx_tag' = ContextVarSet(r, tag)
    /\ pc' = [pc EXCEPT ![r] = "running"]
    /\ overlap' = [o \in Requests |->
                     IF o = r THEN {x \in Requests : InFlight(x)}
                     ELSE IF InFlight(o) THEN overlap[o] \cup {r}
                     ELSE overlap[o]]
    /\ UNCHANGED <<objects, config, stats, origin, calls, passed, sent, log>>

\* downstream code of request r calls the function f (each function once):
\* yappi records the call under the tag its tag callback returns
DownstreamCall(r, f) ==
    /\ pc[r] = "running"
    /\ f \notin calls[r]
    /\ LET k == <<_get_context_tag(r), f>>
       IN  /\ k \in StatKeys
           /\ stats' = [stats EXCEPT ![k] = [ncall |-> @.ncall + 1,
                                              ttot |-> @.ttot + Elapsed(r)]]
           /\ origin' = [origin EXCEPT ![k][r] = @ + Elapsed(r)]
    /\ calls' = [calls EXCEPT ![r] = @ \cup {f}]
    /\ UNCHANGED <<objects, config, pc, ctx_tag, yappi_ctx_tag, overlap, passed, sent, log>>

\* a wrapped_send that checks the memory and clears before it queries
WrappedSendStartClearFirst(r, headers) ==
    /\ pc[r] = "running"
    /\ passed' = [passed EXCEPT ![r] = ResponseStart(headers)]
    /\ app_messages' = [app_messages EXCEPT ![r] = Append(@, ResponseStart(headers))]
    /\ LET branch == HeaderBranch(headers, IF MemoryCheck THEN <<>>
                                           ELSE performances(ctx_tag[r]))
       IN  /\ IF branch.raised
              THEN /\ pc' = [pc EXCEPT ![r] = "raised"]
                   /\ UNCHANGED <<sent, send_messages>>
              ELSE /\ pc' = [pc EXCEPT ![r] = "started"]
                   /\ sent' = [sent EXCEPT ![r] = ResponseStart(branch.headers)]
                   /\ send_messages' = [send_messages EXCEPT
                                           ![r] = Append(@, ResponseStart(branch.headers))]
           /\ IF MemoryCheck
              THEN /\ stats' = [k \in StatKeys |-> NoStat]
                   /\ origin' = [k \in StatKeys |-> [x \in Requests |-> 0]]
              ELSE UNCHANGED <<stats, origin>>
    /\ UNCHANGED <<objects, config, ctx_tag, yappi_ctx_tag, overlap, calls>>

\* wrapped_send(response) for an http.response.start message
WrappedSendStart(r, headers) ==
    /\ pc[r] = "running"
    /\ passed' = [passed EXCEPT ![r] = ResponseStart(headers)]
    /\ app_messages' = [app_messages EXCEPT ![r] = Append(@, ResponseStart(headers))]
    /\ LET branch == HeaderBranch(headers, performances(ctx_tag[r]))
       IN  IF branch.raised
           THEN /\ pc' = [pc EXCEPT ![r] = "raised"]
                /\ UNCHANGED <<sent, send_messages, stats, origin>>
           ELSE /\ pc' = [pc EXCEPT ![r] = "started"]
                /\ sent' = [sent EXCEPT ![r] = ResponseStart(branch.headers)]
                /\ send_messages' = [send_messages EXCEPT
                                        ![r] = Append(@, ResponseStart(branch.headers))]
                /\ IF MemoryCheck
                   THEN /\ stats' = [k \in StatKeys |-> NoStat]
                        /\ origin' = [k \in StatKeys |-> [x \in Requests |-> 0]]
                   ELSE UNCHANGED <<stats, origin>>
    /\ UNCHANGED <<objects, config, ctx_tag, yappi_ctx_tag, overlap, calls>>

\* wrapped_send(response) for a message of another type
WrappedSendBody(r) ==
    /\ pc[r] = "started"
    /\ pc' = [pc EXCEPT ![r] = "body"]
    /\ passed' = [passed EXCEPT ![r] = ResponseBody]
    /\ sent' = [sent EXCEPT ![r] = ResponseBody]
    /\ app_messages' = [app_messages EXCEPT ![r] = Append(@, ResponseBody)]
    /\ send_messages' = [send_messages EXCEPT ![r] = Append(@, ResponseBody)]
    /\ UNCHANGED <<objects, config, ctx_tag, yappi_ctx_tag, stats, origin, overlap, calls>>

\* an abort that removes the statistics of the request's tag
AppRaisesCleaning(r) ==
    /\ pc[r] = "running"
    /\ pc' = [pc EXCEPT ![r] = "aborted"]
    /\ stats' = [k \in StatKeys |-> IF k[1] = ctx_tag[r] THEN NoStat ELSE stats[k]]
    /\ origin' = [k \in StatKeys |->
                    IF k[1] = ctx_tag[r] THEN [x \in Requests |-> 0] ELSE origin[k]]
    /\ ctx_tag' = [ctx_tag EXCEPT ![r] = 0]
    /\ yappi_ctx_tag' = [yappi_ctx_tag EXCEPT ![r] = -1]
    /\ overlap' = [overlap EXCEPT ![r] = {}]
    /\ calls' = [calls EXCEPT ![r] = {}]
    /\ UNCHANGED <<objects, config, passed, sent, log>>

\* the application raises, or its task is cancelled, before it has called
\* wrapped_send: the exception leaves `await self.app(...)` and __call__, which
\* has no handler; the task ends, and its scope, its locals and its context
\* with it
AppRaises(r) ==
    /\ pc[r] = "running"
    /\ pc' = [pc EXCEPT ![r] = "aborted"]
    /\ ctx_tag' = [ctx_tag EXCEPT ![r] = 0]
    /\ yappi_ctx_tag' = [yappi_ctx_tag EXCEPT ![r] = -1]
    /\ overlap' = [overlap EXCEPT ![r] = {}]
    /\ calls' = [calls EXCEPT ![r] = {}]
    /\ UNCHANGED <<objects, config, stats, origin, passed, sent, log>>

\* the application returns after its response, or the exception of
\* wrapped_send leaves __call__: the task ends, and its scope, its locals and
\* its context with it
Finish(r) ==
    /\ pc[r] \in {"started", "body", "raised"}
    /\ pc' = [pc EXCEPT ![r] = "done"]
    /\ ctx_tag' = [ctx_tag EXCEPT ![r] = 0]
    /\ yappi_ctx_tag' = [yappi_ctx_tag EXCEPT ![r] = -1]
    /\ overlap' = [overlap EXCEPT ![r] = {}]
    /\ calls' = [calls EXCEPT ![r] = {}]
    /\ passed' = [passed EXCEPT ![r] = NoMessage]
    /\ sent' = [sent EXCEPT ![r] = NoMessage]
    /\ app_messages' = [app_messages EXCEPT ![r] = <<>>]
    /\ send_messages' = [send_messages EXCEPT ![r] = <<>>]
    /\ UNCHANGED <<objects, config, stats, origin>>

\* ------------------------------------------------------------------------
\* Specifications
\* ------------------------------------------------------------------------
InitState ==
    /\ metric = NoMetric
    /\ header_field = NoHeaderField
    /\ pc = [r \in Requests |-> "idle"]
    /\ ctx_tag = [r \in Requests |-> 0]
    /\ yappi_ctx_tag = [r \in Requests |-> -1]
    /\ stats = [k \in StatKeys |-> NoStat]
    /\ origin = [k \in StatKeys |-> [x \in Requests |-> 0]]
    /\ overlap = [r \in Requests |-> {}]
    /\ calls = [r \in Requests |-> {}]
    /\ passed = [r \in Requests |-> NoMessage]
    /\ sent = [r \in Requests |-> NoMessage]
    /\ app_messages = [r \in Requests |-> <<>>]
    /\ send_messages = [r \in Requests |-> <<>>]

\* concurrent requests under the configuration of tests.py ('replace'),
\* responses without or with an existing header
Init ==
    /\ overwrite_behavior = StrVal("replace")
    /\ calls_to_track = TrackAscii
    /\ constructed = "ok"
    /\ profiler = "started"
    /\ InitState

Next ==
    \E r \in Requests :
        \/ Call(r)
        \/ \E f \in {"f1", "g"} : DownstreamCall(r, f)
        \/ \E h \in {HeadersPlain, HeadersCookies} : WrappedSendStart(r, h)
        \/ Finish(r)

Spec == Init /\ [][Next]_vars

\* concurrent requests whose application may raise before its response
NextAbort ==
    \E r \in Requests :
        \/ Call(r)
        \/ \E f \in {"f1", "g"} : DownstreamCall(r, f)
        \/ AppRaises(r)
        \/ WrappedSendStart(r, HeadersPlain)
        \/ Finish(r)

SpecAbort == Init /\ [][NextAbort]_vars

\* one request, every configuration and every response header list
InitHeaders ==
    /\ overwrite_behavior \in OverwriteBehaviors
    /\ calls_to_track \in {TrackAscii, TrackNonAscii}
    /\ constructed = "ok"
    /\ profiler = "started"
    /\ InitState

NextHeaders ==
    \E r \in {1} :
        \/ Call(r)
        \/ \E f \in Funcs : DownstreamCall(r, f)
        \/ \E h \in HeaderLists : WrappedSendStart(r, h)
        \/ WrappedSendBody(r)
        \/ Finish(r)

SpecHeaders == InitHeaders /\ [][NextHeaders]_vars

\* before any middleware is constructed
InitOff ==
    /\ constructed = ""
    /\ profiler = "off"
    /\ overwrite_behavior = NoneVal
    /\ calls_to_track = <<>>
    /\ InitState

\* construction of the middleware, then one request
NextInit ==
    \/ \E items \in ItemLists, policy \in PolicyArguments :
          MiddlewareInit(DictOfItems(items), policy)
    \/ \E r \in {1} :
          \/ Call(r)
          \/ \E f \in Funcs : DownstreamCall(r, f)
          \/ \E h \in {HeadersPlain, HeadersDesc} : WrappedSendStart(r, h)
          \/ Finish(r)

SpecInit == InitOff /\ [][NextInit]_vars

\* header fields: made, merged, serialized and parsed
NextField ==
    \/ \E sthf \in HeaderFieldMaps : NewHeaderField(sthf)
    \/ \E perfs \in IncomingMetrics : ReplaceMerge(perfs)
    \/ Serialize
    \/ Parse

SpecField == InitOff /\ [][NextField]_vars

\* construction of metric objects
NextMetric ==
    \E class \in MetricClasses, name \in MetricNames,
       description \in MetricDescriptions, duration \in MetricDurations :
        NewMetric(class, name, description, duration)

SpecMetric == InitOff /\ [][NextMetric]_vars

\* ------------------------------------------------------------------------
\* Vocabulary of the properties
\* ------------------------------------------------------------------------
\* wrapped_send forwards the http.response.start message of request r in
\* this step
StartForwarded(r) == pc[r] = "running" /\ pc'[r] = "started"

\* wrapped_send raises on the http.response.start message of request r in
\* this step
StartRaised(r) == pc[r] = "running" /\ pc'[r] = "raised"

\* yappi.clear_stats() has run in this step
Cleared == stats' = [k \in StatKeys |-> NoStat]

\* no entry of the statistics is removed or reduced in this step
NothingCleared == \A k \in StatKeys : stats'[k].ncall >= stats[k].ncall

\* the memory usage, in statistics entries
Usage == Cardinality({k \in StatKeys : stats[k].ncall > 0})

\* the headers of a list that are not server-timing headers, in order
OtherHeaders(headers) == SelectSeq(headers, LAMBDA h : h[1] # "server-timing")

\* the values of the server-timing headers of a list, in order
ServerTimingValues(headers) ==
    LET st == SelectSeq(headers, LAMBDA h : h[1] = "server-timing")
    IN  [i \in 1..Len(st) |-> st[i][2]]

\* the metrics of a Server-Timing header value, as the grammar
\* metric ("," metric)* reads it
Entries(value) == IF value = "" THEN <<>> ELSE Split(value, ",")

EntryName(entry) == Split(entry, ";")[1]

\* all metrics of all server-timing headers of a list, in order
AllEntries(headers) ==
    LET vs == ServerTimingValues(headers)
        RECURSIVE Cat(_)
        Cat(i) == IF i > Len(vs) THEN <<>> ELSE Entries(vs[i]) \o Cat(i + 1)
    IN  Cat(1)

\* the metrics named name among entries, as texts
Named(entries, name) ==
    SelectSeq(entries, LAMBDA e : EntryName(e) = name)

\* the requests whose calls are in the statistics entries of a tag
Contributors(tag) ==
    {x \in Requests : \E f \in Funcs : <<tag, f>> \in StatKeys /\ origin[<<tag, f>>][x] > 0}

RECURSIVE OwnTtot(_, _)
\* the time request r itself spent in the functions of the keys ks, as far as
\* the statistics still hold it
OwnTtot(r, ks) ==
    IF ks = {} THEN 0
    ELSE LET k == CHOOSE x \in ks : TRUE
         IN  origin[k][r] + OwnTtot(r, ks \ {k})

RECURSIVE OwnPerformancesOf(_, _)
\* the metrics of request r computed from its own calls alone
OwnPerformancesOf(r, keys) ==
    IF keys = <<>> THEN <<>>
    ELSE LET own == OwnTtot(r, ScopeIds \X keys[1].callables)
             rest == OwnPerformancesOf(r, Tail(keys))
         IN  IF own > 0
             THEN <<ServerTimingMetric(keys[1].name, keys[1].description,
                                       Some(own * 1000))>> \o rest
             ELSE rest

OwnPerformances(r) == OwnPerformancesOf(r, calls_to_track)

\* the names of the configured metrics with no statistics under a tag
NamesWithoutSamples(tag) ==
    {calls_to_track[i].name : i \in
        {j \in 1..Len(calls_to_track) :
            get_func_stats(tag, calls_to_track[j].callables) = {}}}

NamesWithSamples(tag) ==
    {calls_to_track[i].name : i \in
        {j \in 1..Len(calls_to_track) :
            get_func_stats(tag, calls_to_track[j].callables) # {}}}

\* ------------------------------------------------------------------------
\* Properties
\* ------------------------------------------------------------------------
\* C1: when the response start of a request is forwarded, no request that was
\* in flight together with it has contributed to the statistics of its tag,
\* and (no earlier request having left samples under the tag) the forwarded
\* headers are the ones computed from the request's own calls alone: they
\* hold neither the other request's metric, nor its duration, nor a sum.
C1_OwnDurationOnly ==
    [][\A r \in Requests : StartForwarded(r) =>
          /\ Contributors(ctx_tag[r]) \cap overlap[r] = {}
          /\ Contributors(ctx_tag[r]) \subseteq {r} =>
                sent'[r].headers
                    = HeaderBranch(passed'[r].headers, OwnPerformances(r)).headers
      ]_vars

\* two requests were in flight together, request 1 called f1 (metric a, 5 ms)
\* and request 2 called g (metric b, 100 ms); each got its own metric only
C1_Witness ==
    /\ pc[1] = "started" /\ pc[2] = "started"
    /\ 2 \in overlap[1]
    /\ sent[1].headers = <<ContentType, <<"server-timing", "a;dur=5.000">> >>
    /\ sent[2].headers =
          <<ContentType, <<"server-timing", "b;dur=100.000;desc=\"x\"">> >>

\* C2: while a request is in flight, the tag callback called in its task
\* returns the tag its own __call__ stored, which is the tag of no other
\* request in flight; every sample yappi holds of it is under that tag.
C2_TagIsOwn ==
    \A r \in Requests : InFlight(r) =>
        /\ _get_context_tag(r) = ctx_tag[r]
        /\ \A o \in Requests \ {r} : InFlight(o) => _get_context_tag(r) # ctx_tag[o]
        /\ \A k \in StatKeys : origin[k][r] > 0 => k[1] = ctx_tag[r]

\* both requests run downstream code at once, request 1 having called a
\* function after request 2 stored its tag
C2_Witness ==
    /\ pc[1] = "running" /\ pc[2] = "running"
    /\ 1 \in overlap[2]
    /\ calls[1] # {} /\ calls[2] # {}

\* C3 (as claimed): the statistics obtained at response-start under the
\* request's tag hold samples of that request only.
C3_OnlyOwnSamples ==
    [][\A r \in Requests : StartForwarded(r) =>
          Contributors(ctx_tag[r]) \subseteq {r}]_vars

\* C4 (as claimed): the forwarded response start keeps type, status and every
\* header other than server-timing, with occurrences and order.
C4_OtherHeadersKept ==
    \A r \in Requests : pc[r] = "started" =>
        /\ sent[r].type = passed[r].type
        /\ sent[r].status = passed[r].status
        /\ OtherHeaders(sent[r].headers) = OtherHeaders(passed[r].headers)

\* C5 (as claimed): every response start passed to wrapped_send is forwarded;
\* wrapped_send never raises.
C5_NeverRaises == \A r \in Requests : pc[r] # "raised"

\* C6 (as claimed): with a falsy overwrite_behavior an existing server-timing
\* header is forwarded with the value the application sent, and no other
\* server-timing header is added.
C6_FalsyKeepsHeader ==
    \A r \in Requests :
        (~Truthy(overwrite_behavior) /\ pc[r] = "started"
            /\ ServerTimingValues(passed[r].headers) # <<>>) =>
        ServerTimingValues(sent[r].headers) = ServerTimingValues(passed[r].headers)

\* C7 (as claimed): under 'replace' with an existing server-timing header, for
\* every newly computed metric the forwarded header has exactly one entry of
\* that name, and it is name;dur=D.DDD[;desc="..."] of the new metric.
C7_ReplaceOverwrites ==
    [][\A r \in Requests :
          (StartForwarded(r) /\ overwrite_behavior = StrVal("replace")
              /\ ServerTimingValues(passed'[r].headers) # <<>>) =>
          LET perfs == performances(ctx_tag[r])
              new == AllEntries(sent'[r].headers)
          IN  \A i \in 1..Len(perfs) :
                 Named(new, perfs[i].name) = <<to_header_string(perfs[i])>>
      ]_vars

\* C8 (as claimed): under 'retain' with an existing server-timing header, the
\* existing entries that have the name of a newly computed metric are
\* forwarded as they were and stay the only entries of that name, also when
\* they have no parameters; a metric is inserted, once, only when the
\* existing header has no entry of its name.
C8_RetainKeeps ==
    [][\A r \in Requests :
          (StartForwarded(r) /\ overwrite_behavior = StrVal("retain")
              /\ ServerTimingValues(passed'[r].headers) # <<>>) =>
          LET perfs == performances(ctx_tag[r])
              old == AllEntries(passed'[r].headers)
              new == AllEntries(sent'[r].headers)
          IN  \A i \in 1..Len(perfs) :
                 IF Named(old, perfs[i].name) # <<>>
                 THEN Named(new, perfs[i].name) = Named(old, perfs[i].name)
                 ELSE Len(Named(new, perfs[i].name)) = 1
      ]_vars

\* C9 (as claimed): without an existing server-timing header one is appended
\* if and only if some configured metric has samples; its value is then the
\* joined metrics, and is not empty.
C9_AppendIffSamples ==
    [][\A r \in Requests :
          (StartForwarded(r) /\ ServerTimingValues(passed'[r].headers) = <<>>) =>
          LET perfs == performances(ctx_tag[r])
              values == ServerTimingValues(sent'[r].headers)
          IN  IF perfs = <<>> THEN values = <<>>
              ELSE values = <<JoinedMetrics(perfs)>> /\ values[1] # ""
      ]_vars

\* C10: when a response start is forwarded, a configured metric without
\* statistics under the request's tag is an entry of the forwarded
\* server-timing headers only if the application's own header had an entry of
\* that name; without an existing header the entries are exactly the metrics
\* that have statistics, each with its dur, and none has dur=0.
C10_NoSamplesNoEntry ==
    [][\A r \in Requests : StartForwarded(r) =>
          LET tag == ctx_tag[r]
              perfs == performances(tag)
              old == AllEntries(passed'[r].headers)
              new == AllEntries(sent'[r].headers)
          IN  /\ \A n \in NamesWithoutSamples(tag) \ NamesWithSamples(tag) :
                    Named(new, n) # <<>> => Named(old, n) # <<>>
              /\ ServerTimingValues(passed'[r].headers) = <<>> =>
                    /\ Len(new) = Len(perfs)
                    /\ \A i \in 1..Len(perfs) :
                          /\ EntryName(new[i]) = perfs[i].name
                          /\ perfs[i].name \in NamesWithSamples(tag)
                          /\ Split(new[i], ";")[2]
                                = "dur=" \o Format3f(perfs[i].duration[1])
                          /\ perfs[i].duration[1] > 0
      ]_vars

\* request 2 called g only: metric a, which has no samples, is absent and
\* metric b is emitted
C10_Witness ==
    /\ pc[2] = "started"
    /\ passed[2].headers = HeadersPlain
    /\ sent[2].headers =
          <<ContentType, <<"server-timing", "b;dur=100.000;desc=\"x\"">> >>
    /\ \A f \in {"f1", "f2"} : stats[<<ctx_tag[2], f>>].ncall = 0

\* a name as the claim wants it: a str, not empty, 7-bit ASCII, printable
\* and without a delimiter character
DelimiterChars ==
    {" ", "\"", "(", ")", ",", "/", ":", ";", "<", "=", ">", "?", "@", "[",
     "\\", "]", "{", "}"}

ValidName(name) ==
    /\ name.kind = "str"
    /\ name.s # ""
    /\ \A i \in 1..Len(name.s) :
          /\ Char(name.s, i) \in AsciiChars
          /\ Char(name.s, i) \notin DelimiterChars

\* C11 (as claimed): a metric object of either class that construction
\* accepted has a valid name; construction with an empty name or a name with
\* a disallowed character fails, and construction with a valid name (and a
\* description and a duration of the right types) succeeds.
C11_AcceptedNameValid ==
    metric.class # "" =>
        /\ metric.raised = "" => ValidName(metric.name)
        /\ (/\ ValidName(metric.name)
            /\ metric.description.kind \in {"NoneType", "str"}
            /\ metric.duration.kind \in {"NoneType", "float"}) => metric.raised = ""

\* C12 (as claimed): a construction given a target that is no function or
\* method, or a policy other than 'replace', 'retain' or a falsy value,
\* raises and leaves the profiler off; a middleware whose profiler runs holds
\* functions and methods only, and a policy that is falsy, 'replace' or
\* 'retain'.
C12_InvalidNeverRuns ==
    /\ constructed \notin {"", "ok"} => profiler = "off"
    /\ profiler = "started" =>
          /\ \A i \in 1..Len(calls_to_track) : \A t \in calls_to_track[i].callables :
                TypeOf(t) \in {"function", "method", "cython_function_or_method"}
          /\ \/ ~Truthy(overwrite_behavior)
             \/ overwrite_behavior \in {StrVal("replace"), StrVal("retain")}

\* C13 (as claimed): keys with the same name are the same key, so
\* calls_to_track holds at most one entry per metric name.
C13_OneEntryPerName ==
    \A i, j \in 1..Len(calls_to_track) :
        calls_to_track[i].name = calls_to_track[j].name => i = j

FieldNames(sthf) == {sthf[i][1] : i \in 1..Len(sthf)}

FieldParameters(sthf, name) ==
    LET value == sthf[DictIndex(sthf, name)][2]
    IN  {value[i] : i \in 1..Len(value)}

HasDescription(sthf) ==
    \E i \in 1..Len(sthf) : \E j \in 1..Len(sthf[i][2]) : sthf[i][2][j][1] = "desc"

\* C15 (as claimed): a header field without description values, serialized
\* and parsed again, has the same names and for each name the same
\* parameters.
C15_RoundTrip ==
    (header_field.op = "parsed" /\ ~HasDescription(header_field.before)) =>
        /\ ~header_field.raised
        /\ FieldNames(header_field.sthf) = FieldNames(header_field.before)
        /\ \A name \in FieldNames(header_field.before) :
              FieldParameters(header_field.sthf, name)
                  = FieldParameters(header_field.before, name)

\* C17: when the replace-merge is applied with the metrics it was applied
\* with just before, the header field and its serialization stay as they are.
C17_ReplaceIdempotent ==
    [][(/\ header_field.op = "replace"
        /\ header_field'.op = "replace"
        /\ header_field'.incoming = header_field.incoming) =>
          /\ header_field'.sthf = header_field.sthf
          /\ header_field'.text = header_field.text
      ]_vars

\* the metrics a and b were merged twice into a field that held a and z
C17_Witness ==
    /\ header_field.op = "replace"
    /\ header_field.before = header_field.sthf
    /\ Len(header_field.incoming) = 2
    /\ header_field.text = "z;dur=1,b;dur=100.0;desc=x,a;dur=5.0"

\* C16: when the application of a request raises before a response start,
\* nothing was or is forwarded for the request and the statistics stay as
\* they are; the samples the request left stay in the statistics in every
\* later step except a forwarded response start of some request, at a usage
\* that has reached the threshold, that clears them.
C16_AbortKeepsSamples ==
    [][\A r \in Requests :
          /\ (pc[r] = "running" /\ pc'[r] = "aborted") =>
                /\ stats' = stats
                /\ passed'[r] = NoMessage /\ sent'[r] = NoMessage
          /\ pc[r] = "aborted" =>
                \/ \A k \in StatKeys : origin'[k][r] = origin[k][r] /\ stats'[k].ttot >= origin[k][r]
                \/ /\ \E o \in Requests : StartForwarded(o)
                   /\ Cardinality({k \in StatKeys : stats[k].ncall > 0}) >= MaxProfilerMem
                   /\ Cleared
      ]_vars

\* request 1 raised after calling f1; its sample is still stored when
\* request 2 has sent its response start
C16_Witness ==
    /\ pc[1] = "aborted"
    /\ sent[1] = NoMessage
    /\ \E t \in ScopeIds : origin[<<t, "f1">>][1] > 0 /\ stats[<<t, "f1">>].ncall > 0
    /\ pc[2] = "started"

RECURSIVE GroupTtot(_, _)
\* the time the statistics hold under a tag for the functions of a group
GroupTtot(tag, group) ==
    IF group = {} THEN 0
    ELSE LET f == CHOOSE x \in group : TRUE
         IN  (IF <<tag, f>> \in StatKeys THEN stats[<<tag, f>>].ttot ELSE 0)
                 + GroupTtot(tag, group \ {f})

\* C18: when a response start is forwarded, every configured metric whose
\* own call group has records under the request's tag is emitted once with
\* the milliseconds summed over the targets of that group alone, and a metric
\* whose own group has none is not emitted: appended with three decimals
\* when the response has no server-timing header, and under 'replace' set
\* in the existing header.
C18_OwnGroupOnly ==
    [][\A r \in Requests : StartForwarded(r) =>
          LET tag == ctx_tag[r]
              old == ServerTimingValues(passed'[r].headers)
              new == AllEntries(sent'[r].headers)
          IN  \A i \in 1..Len(calls_to_track) :
                 LET key == calls_to_track[i]
                     ms == GroupTtot(tag, key.callables) * 1000
                 IN  /\ old = <<>> =>
                          Named(new, key.name) =
                             IF ms = 0 THEN <<>>
                             ELSE <<key.name \o ";dur=" \o Format3f(ms)
                                      \o (IF key.description = None THEN ""
                                          ELSE ";desc=\"" \o key.description[1] \o "\"")>>
                     /\ (old # <<>> /\ old # <<"">> /\ ms > 0
                            /\ overwrite_behavior = StrVal("replace")) =>
                          Named(new, key.name) =
                             <<key.name \o ";dur=" \o FloatStr(ms)
                                 \o (IF key.description = None THEN ""
                                     ELSE ";desc=" \o key.description[1])>>
      ]_vars

\* the request called f1, f2 and g: metric a has the sum of f1 and f2, metric
\* b the time of g
C18_Witness ==
    /\ pc[1] = "started"
    /\ sent[1].headers =
          <<ContentType, <<"server-timing", "a;dur=10.000,b;dur=5.000;desc=\"x\"">> >>

\* C19 (as claimed): under 'replace' and under 'retain', every metric of the
\* existing server-timing header whose name is not the name of a newly
\* computed metric is a metric of the forwarded header, with the same name
\* and the same parameters.
C19_UnrelatedKept ==
    [][\A r \in Requests :
          (StartForwarded(r)
              /\ overwrite_behavior \in {StrVal("replace"), StrVal("retain")}
              /\ ServerTimingValues(passed'[r].headers) # <<>>) =>
          LET perfs == performances(ctx_tag[r])
              names == {perfs[i].name : i \in 1..Len(perfs)}
              old == AllEntries(passed'[r].headers)
              new == AllEntries(sent'[r].headers)
          IN  \A j \in 1..Len(old) :
                 EntryName(old[j]) \notin names =>
                    \E k \in 1..Len(new) : new[k] = old[j]
      ]_vars

\* C20: a forwarded response start that clears the statistics still reports
\* every metric that had records under the request's tag before the clear,
\* with the time they held; and a request that has not sent its response
\* start loses samples only in the step in which another request's response
\* start is forwarded and clears.
C20_QueryBeforeClear ==
    [][\A r \in Requests :
          /\ (StartForwarded(r) /\ Usage >= MaxProfilerMem /\ Cleared) =>
                LET tag == ctx_tag[r]
                    old == ServerTimingValues(passed'[r].headers)
                    new == AllEntries(sent'[r].headers)
                IN  \A i \in 1..Len(calls_to_track) :
                       LET key == calls_to_track[i]
                           ms == GroupTtot(tag, key.callables) * 1000
                       IN  ms > 0 =>
                             /\ Len(Named(new, key.name)) = 1
                             /\ Split(Named(new, key.name)[1], ";")[2] =
                                    "dur=" \o (IF old = <<>> THEN Format3f(ms)
                                               ELSE FloatStr(ms))
          /\ (pc[r] = "running" /\ pc'[r] = "running"
                 /\ \E k \in StatKeys : origin'[k][r] < origin[k][r]) =>
                \E o \in Requests \ {r} : StartForwarded(o) /\ Cleared
      ]_vars

\* request 2 called g and its response start was forwarded with the usage at
\* the threshold: the header has metric b and the statistics are cleared,
\* the samples of request 1, which is still running, with them
C20_Witness ==
    /\ pc[2] = "started" /\ pc[1] = "running"
    /\ calls[1] # {}
    /\ stats = [k \in StatKeys |-> NoStat]
    /\ sent[2].headers =
          <<ContentType, <<"server-timing", "b;dur=100.000;desc=\"x\"">> >>

\* C21 (as claimed): the messages the real send of a request was called
\* with are, one for one and in order, the messages its application passed
\* to wrapped_send; a message that is no http.response.start is forwarded as
\* it is, and the step that forwards it changes no statistics.
C21_ForwardedOnceInOrder ==
    [][\A r \in Requests :
          /\ Len(send_messages'[r]) = Len(app_messages'[r])
          /\ \A i \in 1..Len(app_messages'[r]) :
                /\ i <= Len(send_messages'[r]) =>
                      /\ send_messages'[r][i].type = app_messages'[r][i].type
                      /\ app_messages'[r][i].type # "http.response.start" =>
                            send_messages'[r][i] = app_messages'[r][i]
          /\ (/\ Len(app_messages'[r]) > Len(app_messages[r])
              /\ passed'[r].type # "http.response.start") => stats' = stats
      ]_vars

====
